---- MODULE Spec2Model ----
(***************************************************************************)
(* Glambook backend: the service routes (/api/services), their middleware  *)
(* chain protect -> authorize -> controller, and the Service collection.   *)
(*                                                                         *)
(* Every request is handled by an async chain; the steps between two       *)
(* awaits run atomically on the Node event loop, so each action below is   *)
(* one such step.  Two requests may be in flight at once (Slots).          *)
(*                                                                         *)
(* Only the calls on the Service collection touch state that requests      *)
(* share.  Every other step commutes with the steps of the other request,  *)
(* so a request runs without interleaving from its arrival to its first    *)
(* call on the collection, and the other request steps only while this     *)
(* one waits between its load and its write (Waiting).  A request that     *)
(* only reads, or only creates, has a single call on the collection and    *)
(* is atomic; what can happen inside the load-write window of an update    *)
(* or delete and matter is another update or delete.  Slot A therefore     *)
(* takes any request, and slot B takes the update or delete that races     *)
(* with the request of slot A.  A response is observed in pc = "done" and  *)
(* the slot is freed before anything else happens.                         *)
(*                                                                         *)
(* Spec is the whole backend.  SpecCatalogue (creates and listings) and    *)
(* SpecRace (creates, updates and deletes) run the same actions on other   *)
(* inputs.  SpecDashboard is the vendor dashboard of the frontend, whose   *)
(* state is the variable ui; the backend actions leave it alone.           *)
(***************************************************************************)
EXTENDS Integers, Sequences, FiniteSets, TLC

----------------------------------------------------------------------------
(* Bounds of the model *)

\* number of services the vendor dashboard can be given (ids 1..MaxShown)
MaxShown == 4

\* number of services that can ever be created (ids 1..MaxServices)
MaxServices == 2

\* the two concurrently handled requests
Slots == {"A", "B"}

----------------------------------------------------------------------------
(* JavaScript values *)

\* undefined / a missing key
Absent == "absent"

\* numbers are kept in thousandths so that a third decimal is visible
NoNum == [t |-> "absent"]
NaN == [t |-> "nan"]
Num(v) == [t |-> "num", v |-> v]
\* a non-numeric string found where a number is expected
StrVal == [t |-> "str"]

\* a string: n characters of content surrounded by sp blanks
NoText == [t |-> "absent"]
Text(n, sp) == [t |-> "text", n |-> n, sp |-> sp]

----------------------------------------------------------------------------
(* The identity store (User collection) *)

\* role of every account, schema enum client | vendor | admin
users == [v1 |-> "vendor", v2 |-> "vendor", a1 |-> "admin", c1 |-> "client"]

UserIds == DOMAIN users

\* User.findById: the account or Absent
UserFindById(sub) == IF sub \in UserIds THEN sub ELSE Absent

----------------------------------------------------------------------------
(* Credentials *)

\* a JWT as jwt.verify sees it; sub is the id claim of the payload
Tokens ==
  {[form |-> "malformed", sub |-> Absent],
   [form |-> "expired", sub |-> "v1"],
   [form |-> "badsig", sub |-> "a1"]}
  \cup {[form |-> "signed", sub |-> u] : u \in UserIds \cup {"gone"}}

NoToken == [form |-> "none", sub |-> Absent]

\* the Authorization header: missing, another scheme, Bearer without or
\* with a token
Headers ==
  {[scheme |-> "none", token |-> NoToken],
   [scheme |-> "Basic", token |-> [form |-> "signed", sub |-> "v1"]],
   [scheme |-> "Bearer", token |-> NoToken]}
  \cup {[scheme |-> "Bearer", token |-> t] : t \in Tokens}

\* auth.middleware.ts 19-25
ExtractToken(h) == IF h.scheme = "Bearer" THEN h.token ELSE NoToken

\* jwt.verify called with ignoreExpiration
JwtVerifiesIgnoreExpiry(tok) == tok.form \in {"signed", "expired"}

\* jwt.verify returns the payload only for a well-formed, unexpired token
\* signed with JWT_SECRET, and throws otherwise
JwtVerifies(tok) == tok.form = "signed"

----------------------------------------------------------------------------
(* Service identifiers *)

\* an ObjectId the store generated (n >= 1) or never generated (n = 0)
Oid(n) == [len |-> 24, hex |-> TRUE, n |-> n]

\* the :id path segment: 24 hex characters, a 12-character string, 24
\* characters that are not all hex
PathIds ==
  {Oid(n) : n \in 0..MaxServices}
  \cup {[len |-> 12, hex |-> FALSE, n |-> 0],
        [len |-> 24, hex |-> FALSE, n |-> 0]}

\* a check of the length only
isValidObjectIdLength(id) == id.len = 12 \/ id.len = 24

\* mongoose.Types.ObjectId.isValid: 24 hex characters or any 12-byte string
isValidObjectId(id) == id.len = 12 \/ (id.len = 24 /\ id.hex)

----------------------------------------------------------------------------
(* The Service schema *)

Categories == {"Hair", "Makeup", "Spa", "Nails", "Skincare", "Massage", "Other"}
Statuses == {"active", "inactive"}

TitleMin == 3
TitleMax == 100
DescriptionMin == 10
DescriptionMax == 1000
\* thousandths: min 0
PriceMin == 0
\* thousandths: min 10 (minutes)
DurationMin == 10000

FieldNames == {"title", "description", "price", "duration", "category",
               "status", "vendorId"}

\* a set of fields none of which is present
NoFields ==
  [title |-> NoText, description |-> NoText, price |-> NoNum,
   duration |-> NoNum, category |-> Absent, status |-> Absent,
   vendorId |-> Absent]

\* the trim setter of the String paths
Trim(x) == IF x.t = "text" THEN Text(x.n, 0) ELSE x

\* JavaScript truthiness of a string-valued key (the empty string is falsy)
TruthyStr(x) == x # Absent /\ x # ""

\* JavaScript truthiness of a body text: a non-empty string
TruthyText(x) == x.t = "text" /\ x.n + x.sp > 0

\* JavaScript truthiness of a body number: 0, NaN and undefined are falsy,
\* a non-empty string is truthy
TruthyNum(x) == (x.t = "num" /\ x.v # 0) \/ x.t = "str"

\* required + minlength + maxlength of a trimmed String path
TextValid(x, lo, hi) == x.t = "text" /\ x.n > 0 /\ x.n >= lo /\ x.n <= hi

\* price: required, min 0, /^\d+(\.\d{1,2})?$/ on the printed number
PriceValid(x) == x.t = "num" /\ x.v >= PriceMin /\ x.v % 10 = 0

\* duration: required, min 10, Number.isInteger
DurationValid(x) == x.t = "num" /\ x.v >= DurationMin /\ x.v % 1000 = 0

\* whether a key is present in a body
Present(f, x) ==
  IF f \in {"title", "description", "price", "duration"}
  THEN x.t # "absent"
  ELSE x # Absent

\* whether the schema rejects value x for path f (a value that cannot be
\* cast counts as invalid)
FieldInvalid(f, x) ==
  CASE f = "title" -> ~TextValid(Trim(x), TitleMin, TitleMax)
    [] f = "description" -> ~TextValid(Trim(x), DescriptionMin, DescriptionMax)
    [] f = "price" -> ~PriceValid(x)
    [] f = "duration" -> ~DurationValid(x)
    [] f = "category" -> x \notin Categories
    [] f = "status" -> x \notin Statuses
    [] f = "vendorId" -> x = Absent

\* the paths of a complete document that fail validation (Service.create)
ValidationErrors(d) == {f \in FieldNames : FieldInvalid(f, d[f])}

\* a value mongoose cannot cast to the type of its path
Uncastable(f, x) == f \in {"price", "duration"} /\ x.t \in {"str", "nan"}

----------------------------------------------------------------------------
(* Request inputs *)

\* a JSON body: top-level keys and the keys of a top-level $set operator
Body(top, set) == [top |-> top, set |-> set]

ValidFields ==
  [NoFields EXCEPT !.title = Text(5, 0), !.description = Text(20, 0),
                   !.price = Num(25000), !.duration = Num(30000),
                   !.category = "Hair"]

\* bodies sent to POST /api/services
CreateBodies ==
  {Body(ValidFields, NoFields),
   Body([ValidFields EXCEPT !.vendorId = "v2"], NoFields),
   Body([ValidFields EXCEPT !.price = Num(0)], NoFields),
   Body([ValidFields EXCEPT !.price = Num(10999)], NoFields),
   Body([ValidFields EXCEPT !.title = NoText], NoFields)}

\* bodies sent to PUT /api/services/:id
UpdateBodies ==
  {Body([NoFields EXCEPT !.price = Num(40000), !.status = "inactive"], NoFields),
   Body([NoFields EXCEPT !.vendorId = "v2", !.price = Num(40000),
                         !.status = "inactive"], NoFields),
   Body(NoFields, [NoFields EXCEPT !.vendorId = "v2"]),
   Body([NoFields EXCEPT !.price = Num(-5000)], NoFields),
   Body([NoFields EXCEPT !.price = StrVal], NoFields)}

NoBody == Body(NoFields, NoFields)

\* a query-string parameter: missing, or a string with the value Number()
\* gives for it
NoParam == [t |-> "absent"]
Param(s, num) == [t |-> "str", s |-> s, num |-> num]

Query(category, status, minPrice, maxPrice) ==
  [category |-> category, status |-> status,
   minPrice |-> minPrice, maxPrice |-> maxPrice]

NoQuery == Query(Absent, Absent, NoParam, NoParam)

\* query strings sent to GET /api/services
Queries ==
  {Query(Absent, s, NoParam, NoParam) :
     s \in {Absent, "", "active", "inactive", "archived"}}
  \cup {Query("Hair", Absent, NoParam, NoParam),
        Query(Absent, Absent, Param("abc", NaN), NoParam)}

----------------------------------------------------------------------------
(* Routes *)

Ops == {"list", "mine", "get", "create", "update", "delete"}

Roles == {"client", "vendor", "admin"}

\* a route table whose PUT route also admits admin
PermittedAdminUpdate ==
  [list |-> {"client", "admin", "vendor"},
   mine |-> {"vendor"},
   get |-> {"client", "vendor", "admin"},
   create |-> {"vendor"},
   update |-> {"vendor", "admin"},
   delete |-> {"vendor", "admin"}]

\* the roles each route hands to authorize(...)
Permitted ==
  [list |-> {"client", "admin", "vendor"},
   mine |-> {"vendor"},
   get |-> {"client", "vendor", "admin"},
   create |-> {"vendor"},
   update |-> {"vendor"},
   delete |-> {"vendor", "admin"}]

\* role.middleware.ts: roles.includes(req.user.role)
authorize(roles, user) == users[user] \in roles

----------------------------------------------------------------------------
(* State *)

VARIABLES
  store,   \* the Service collection: id number -> document
  nextId,  \* the next id the store generates
  now,     \* the wall clock at the latest create (createdAt)
  deleted, \* history: the ids whose delete has been answered with 200
  req,     \* the request each slot is handling
  ui       \* the vendor dashboard of one browser (VendorDashboard.tsx)

vars == <<store, nextId, now, deleted, req, ui>>

NoRes == [status |-> 0, message |-> "", error |-> "", errors |-> {}]
Res(status, message) ==
  [status |-> status, message |-> message, error |-> "", errors |-> {}]

\* a slot that handles no request
Idle ==
  [op |-> "none", pc |-> "idle", header |-> [scheme |-> "none", token |-> NoToken],
   user |-> Absent, id |-> Oid(0), body |-> NoBody, query |-> NoQuery,
   owner |-> Absent, res |-> NoRes, data |-> <<>>,
   stages |-> {}, calls |-> {}, repeat |-> FALSE]

\* deleteModal with no service chosen (VendorDashboard.tsx lines 21-26, 62-70)
ClosedModal == [isOpen |-> FALSE, serviceId |-> 0, loading |-> FALSE]

\* the dashboard as mounted: useState defaults, fetchMyServices pending
Mounted ==
  [services |-> {}, loading |-> TRUE, deleteModal |-> ClosedModal,
   pending |-> <<>>, toast |-> "none"]

\* res.status(..).json(..): the response ends the request
Respond(r, res, data) == [r EXCEPT !.pc = "done", !.res = res, !.data = data]

Init ==
  /\ store = <<>>
  /\ nextId = 1
  /\ now = 0
  /\ deleted = {}
  /\ req = [s \in Slots |-> Idle]
  /\ ui = Mounted

\* a request that has loaded its service and waits for its write
Waiting == {"updateStore", "deleteStore"}

\* slot s may step: every other slot is free or waits for its write
Quiet(s) == \A t \in Slots \ {s} : req[t].pc \in Waiting \cup {"idle"}

\* the routes whose controller calls the collection twice
RacingOps == {"update", "delete"}

\* Service.findById: <<document>> or <<>> (null)
findById(id) ==
  IF id.len = 24 /\ id.hex /\ id.n \in DOMAIN store
  THEN <<store[id.n]>>
  ELSE <<>>

\* the creates that have passed the role gate or may still pass it
PendingCreates == Cardinality({s \in Slots : req[s].op = "create" /\ req[s].pc # "done"})

----------------------------------------------------------------------------
(* Arrival and the protect middleware *)

\* a request for route op reaches the router
Arrive(s, op) ==
  /\ req[s].pc = "idle"
  /\ IF s = "A"
     THEN \A t \in Slots \ {s} : req[t].pc = "idle"
     ELSE req["A"].pc \in Waiting /\ op \in RacingOps
  /\ op = "create" => nextId + PendingCreates <= MaxServices
  /\ req' = [req EXCEPT ![s] =
       [Idle EXCEPT !.op = op, !.pc = "protect"]]
  /\ UNCHANGED <<store, nextId, now, deleted, ui>>

\* the message of the error jwt.verify throws
JwtError(tok) ==
  CASE tok.form = "malformed" -> "jwt malformed"
    [] tok.form = "expired" -> "jwt expired"
    [] tok.form = "badsig" -> "invalid signature"
    [] OTHER -> ""

\* protect up to the await of User.findById
ProtectVerify(s) ==
  /\ req[s].pc = "protect"
  /\ Quiet(s)
  /\ \E h \in Headers :
       LET r == [req[s] EXCEPT !.header = h, !.stages = @ \cup {"protect"}]
           token == ExtractToken(h)
       IN req' = [req EXCEPT ![s] =
            IF token = NoToken
            THEN Respond(r, Res(401, "Not authorized, no token"), <<>>)
            ELSE IF ~JwtVerifies(token)
            THEN Respond(r, [Res(401, "Not authorized, token failed")
                               EXCEPT !.error = JwtError(token)], <<>>)
            ELSE [r EXCEPT !.pc = "lookup"]]
  /\ UNCHANGED <<store, nextId, now, deleted, ui>>

\* protect without the test of lines 42-47
ProtectLookupNoNullCheck(s) ==
  /\ req[s].pc = "lookup"
  /\ Quiet(s)
  /\ req' = [req EXCEPT ![s] =
       [req[s] EXCEPT !.user = UserFindById(ExtractToken(req[s].header).sub),
                      !.pc = "authorize"]]
  /\ UNCHANGED <<store, nextId, now, deleted, ui>>

\* protect after User.findById(decoded.id)
ProtectLookup(s) ==
  /\ req[s].pc = "lookup"
  /\ Quiet(s)
  /\ LET r == req[s]
         u == UserFindById(ExtractToken(r.header).sub)
     IN req' = [req EXCEPT ![s] =
          IF u = Absent
          THEN Respond(r, Res(401, "User not found"), <<>>)
          ELSE [r EXCEPT !.user = u, !.pc = "authorize"]]
  /\ UNCHANGED <<store, nextId, now, deleted, ui>>

\* authorize without the return of line 7: next() runs after the 403
AuthorizeNoReturn(s) ==
  /\ req[s].pc = "authorize"
  /\ Quiet(s)
  /\ LET r == [req[s] EXCEPT !.stages = @ \cup {"authorize"}]
     IN req' = [req EXCEPT ![s] =
          IF ~authorize(Permitted[r.op], r.user)
          THEN [r EXCEPT !.res = Res(403, "Access denied: insufficient permissions"),
                         !.pc = "controller"]
          ELSE [r EXCEPT !.pc = "controller"]]
  /\ UNCHANGED <<store, nextId, now, deleted, ui>>

\* the middleware authorize(...roles) of the route
Authorize(s) ==
  /\ req[s].pc = "authorize"
  /\ Quiet(s)
  /\ LET r == [req[s] EXCEPT !.stages = @ \cup {"authorize"}]
     IN req' = [req EXCEPT ![s] =
          IF ~authorize(Permitted[r.op], r.user)
          THEN Respond(r, Res(403, "Access denied: insufficient permissions"), <<>>)
          ELSE [r EXCEPT !.pc = "controller"]]
  /\ UNCHANGED <<store, nextId, now, deleted, ui>>

----------------------------------------------------------------------------
(* Store operations *)

\* the sequences that list the documents of S newest first; documents with
\* equal createdAt come in an order the store chooses
SortedDesc(S) ==
  {q \in [1..Cardinality(S) -> S] :
     /\ \A i, j \in 1..Cardinality(S) : i # j => q[i] # q[j]
     /\ \A i, j \in 1..Cardinality(S) :
          i < j => q[i].createdAt >= q[j].createdAt}

Docs == {store[i] : i \in DOMAIN store}

\* the fields an update document assigns: top-level keys are $set keys
Effective(b) ==
  [f \in FieldNames |-> IF Present(f, b.top[f]) THEN b.top[f] ELSE b.set[f]]

\* an update that leaves the status of the document as it is
ApplyPatchWithoutStatus(d, e) ==
  [k \in DOMAIN d |->
     IF k \in FieldNames \ {"status"} /\ Present(k, e[k])
     THEN (IF k \in {"title", "description"} THEN Trim(e[k]) ELSE e[k])
     ELSE d[k]]

\* the document after the assignments of patch e, String paths trimmed
ApplyPatch(d, e) ==
  [k \in DOMAIN d |->
     IF k \in FieldNames /\ Present(k, e[k])
     THEN (IF k \in {"title", "description"} THEN Trim(e[k]) ELSE e[k])
     ELSE d[k]]

\* the paths of an update that runValidators rejects
PatchErrors(e) == {f \in FieldNames : Present(f, e[f]) /\ FieldInvalid(f, e[f])}

\* the paths of an update whose value cannot be cast
PatchCastErrors(e) == {f \in FieldNames : Present(f, e[f]) /\ Uncastable(f, e[f])}

----------------------------------------------------------------------------
(* createService *)

\* lines 11-29: the falsy check of the required fields, for a body of B
CreateCheckFrom(s, B) ==
  /\ req[s].pc = "controller"
  /\ Quiet(s)
  /\ req[s].op = "create"
  /\ \E b \in B :
       LET r == [req[s] EXCEPT !.body = b, !.stages = @ \cup {"controller"}]
           t == b.top
       IN req' = [req EXCEPT ![s] =
            IF r.user = Absent
            THEN Respond(r, Res(400, "Vendor ID could not be extracted from token"), <<>>)
            ELSE IF \/ ~TruthyText(t.title) \/ ~TruthyText(t.description)
                    \/ ~TruthyNum(t.price) \/ ~TruthyNum(t.duration)
                    \/ ~TruthyStr(t.category)
            THEN Respond(r, Res(400, "Please provide all required fields"), <<>>)
            ELSE [r EXCEPT !.pc = "create"]]
  /\ UNCHANGED <<store, nextId, now, deleted, ui>>

CreateCheck(s) == CreateCheckFrom(s, CreateBodies)

\* a document that takes vendorId from the body when the body carries one
NewServiceFromBody(r, t) ==
  LET b == r.body.top
  IN [id |-> nextId,
      title |-> Trim(b.title),
      description |-> Trim(b.description),
      price |-> b.price,
      duration |-> b.duration,
      category |-> b.category,
      status |-> IF TruthyStr(b.status) THEN b.status ELSE "active",
      vendorId |-> IF b.vendorId # Absent THEN b.vendorId ELSE r.user,
      createdAt |-> t]

\* the document createService hands to Service.create, stamped at time t
NewService(r, t) ==
  LET b == r.body.top
  IN [id |-> nextId,
      title |-> Trim(b.title),
      description |-> Trim(b.description),
      price |-> b.price,
      duration |-> b.duration,
      category |-> b.category,
      status |-> IF TruthyStr(b.status) THEN b.status ELSE "active",
      vendorId |-> r.user,
      createdAt |-> t]

\* lines 34-69: Service.create and its outcome, the clock reading a
\* millisecond of T
CreateStoreAt(s, T) ==
  /\ req[s].pc = "create"
  /\ Quiet(s)
  /\ \E t \in T :
       LET r == [req[s] EXCEPT !.calls = @ \cup {"create"}]
           d == NewService(r, t)
           errs == ValidationErrors(d)
       IN IF errs # {}
          THEN /\ req' = [req EXCEPT ![s] =
                    Respond(r, [Res(400, "Validation failed")
                                  EXCEPT !.errors = errs], <<>>)]
               /\ UNCHANGED <<store, nextId, now>>
          ELSE /\ store' = [i \in DOMAIN store \cup {nextId} |->
                              IF i = nextId THEN d ELSE store[i]]
               /\ nextId' = nextId + 1
               /\ now' = t
               /\ req' = [req EXCEPT ![s] =
                    Respond(r, Res(201, "Service created successfully"), <<d>>)]
  /\ UNCHANGED <<deleted, ui>>

\* the clock has advanced since the latest create
CreateStore(s) == CreateStoreAt(s, {now + 1})

----------------------------------------------------------------------------
(* getMyServices, getAllServices *)

\* a listing of the vendor's own services that leaves out the inactive ones
MyServicesActiveOnly(s, Q) ==
  /\ req[s].pc = "controller"
  /\ Quiet(s)
  /\ req[s].op = "mine"
  /\ \E q \in Q :
       LET r == [req[s] EXCEPT !.query = q, !.stages = @ \cup {"controller"},
                               !.calls = @ \cup {"find"}]
       IN \E l \in SortedDesc({d \in Docs : d.vendorId = r.user
                                              /\ d.status = "active"}) :
            req' = [req EXCEPT ![s] = Respond(r, Res(200, ""), l)]
  /\ UNCHANGED <<store, nextId, now, deleted, ui>>

\* lines 72-91, the request carrying a query string of Q, which the
\* controller does not read
MyServicesWith(s, Q) ==
  /\ req[s].pc = "controller"
  /\ Quiet(s)
  /\ req[s].op = "mine"
  /\ \E q \in Q :
       LET r == [req[s] EXCEPT !.query = q, !.stages = @ \cup {"controller"},
                               !.calls = @ \cup {"find"}]
       IN \E l \in SortedDesc({d \in Docs : d.vendorId = r.user}) :
            req' = [req EXCEPT ![s] = Respond(r, Res(200, ""), l)]
  /\ UNCHANGED <<store, nextId, now, deleted, ui>>

getMyServices(s) == MyServicesWith(s, Queries)

\* truthiness of a query-string parameter
TruthyParam(p) == p.t = "str" /\ p.s # ""

\* a filter in which the status parameter replaces the forced status
BuildQueryParamWins(role, q) ==
  [status |-> IF TruthyStr(q.status) THEN q.status
              ELSE IF role = "client" THEN "active" ELSE Absent,
   category |-> IF TruthyStr(q.category) THEN q.category ELSE Absent,
   gte |-> IF TruthyParam(q.minPrice) THEN q.minPrice.num ELSE NoNum,
   lte |-> IF TruthyParam(q.maxPrice) THEN q.maxPrice.num ELSE NoNum]

\* a filter without lines 108-110: the status parameter is never read
BuildQueryStatusIgnored(role, q) ==
  [status |-> IF role = "client" THEN "active" ELSE Absent,
   category |-> IF TruthyStr(q.category) THEN q.category ELSE Absent,
   gte |-> IF TruthyParam(q.minPrice) THEN q.minPrice.num ELSE NoNum,
   lte |-> IF TruthyParam(q.maxPrice) THEN q.maxPrice.num ELSE NoNum]

\* a filter that tests the converted number, so that a bound of 0 is dropped
BuildQueryZeroDropped(role, q) ==
  [status |-> IF role = "client" THEN "active"
              ELSE IF TruthyStr(q.status) THEN q.status ELSE Absent,
   category |-> IF TruthyStr(q.category) THEN q.category ELSE Absent,
   gte |-> IF TruthyParam(q.minPrice) /\ q.minPrice.num # Num(0)
           THEN q.minPrice.num ELSE NoNum,
   lte |-> IF TruthyParam(q.maxPrice) /\ q.maxPrice.num # Num(0)
           THEN q.maxPrice.num ELSE NoNum]

\* lines 95-116: the filter getAllServices builds
BuildQuery(role, q) ==
  [status |-> IF role = "client" THEN "active"
              ELSE IF TruthyStr(q.status) THEN q.status ELSE Absent,
   category |-> IF TruthyStr(q.category) THEN q.category ELSE Absent,
   gte |-> IF TruthyParam(q.minPrice) THEN q.minPrice.num ELSE NoNum,
   lte |-> IF TruthyParam(q.maxPrice) THEN q.maxPrice.num ELSE NoNum]

\* whether document d satisfies filter f
Matches(d, f) ==
  /\ f.status # Absent => d.status = f.status
  /\ f.category # Absent => d.category = f.category
  /\ f.gte.t = "num" => d.price.v >= f.gte.v
  /\ f.lte.t = "num" => d.price.v <= f.lte.v

\* mongoose refuses to cast NaN to the Number path price
QueryCastError(f) == f.gte = NaN \/ f.lte = NaN

\* lines 93-136, for a query string of Q
AllServicesWith(s, Q) ==
  /\ req[s].pc = "controller"
  /\ Quiet(s)
  /\ req[s].op = "list"
  /\ \E q \in Q :
       LET r == [req[s] EXCEPT !.query = q, !.stages = @ \cup {"controller"},
                               !.calls = @ \cup {"find"}]
           f == BuildQuery(users[r.user], q)
       IN IF QueryCastError(f)
          THEN req' = [req EXCEPT ![s] =
                 Respond(r, [Res(500, "Failed to fetch services")
                               EXCEPT !.error = "CastError"], <<>>)]
          ELSE \E l \in SortedDesc({d \in Docs : Matches(d, f)}) :
                 req' = [req EXCEPT ![s] = Respond(r, Res(200, ""), l)]
  /\ UNCHANGED <<store, nextId, now, deleted, ui>>

getAllServices(s) == AllServicesWith(s, Queries)

----------------------------------------------------------------------------
(* getServiceById *)

\* the malformed id answered with 422
InvalidId422 == Res(422, "Invalid service ID format")

InvalidId == Res(400, "Invalid service ID format")
NotFound == Res(404, "Service not found")

\* lines 140-148
GetByIdValidate(s) ==
  /\ req[s].pc = "controller"
  /\ Quiet(s)
  /\ req[s].op = "get"
  /\ \E id \in PathIds :
       LET r == [req[s] EXCEPT !.id = id, !.stages = @ \cup {"controller"}]
       IN req' = [req EXCEPT ![s] =
            IF ~isValidObjectId(id)
            THEN Respond(r, InvalidId, <<>>)
            ELSE [r EXCEPT !.pc = "get"]]
  /\ UNCHANGED <<store, nextId, now, deleted, ui>>

\* getServiceById without the test of lines 153-159
GetByIdLoadNoNullCheck(s) ==
  /\ req[s].pc = "get"
  /\ Quiet(s)
  /\ LET r == [req[s] EXCEPT !.calls = @ \cup {"findById"}]
     IN req' = [req EXCEPT ![s] = Respond(r, Res(200, ""), findById(r.id))]
  /\ UNCHANGED <<store, nextId, now, deleted, ui>>

\* lines 150-164
GetByIdLoad(s) ==
  /\ req[s].pc = "get"
  /\ Quiet(s)
  /\ LET r == [req[s] EXCEPT !.calls = @ \cup {"findById"}]
         service == findById(r.id)
     IN req' = [req EXCEPT ![s] =
          IF service = <<>>
          THEN Respond(r, NotFound, <<>>)
          ELSE Respond(r, Res(200, ""), service)]
  /\ UNCHANGED <<store, nextId, now, deleted, ui>>

----------------------------------------------------------------------------
(* updateService *)

\* lines 178-188, for a body of B
UpdateValidateFrom(s, B) ==
  /\ req[s].pc = "controller"
  /\ Quiet(s)
  /\ req[s].op = "update"
  /\ \E id \in PathIds, b \in B :
       LET r == [req[s] EXCEPT !.id = id, !.body = b,
                               !.stages = @ \cup {"controller"}]
       IN req' = [req EXCEPT ![s] =
            IF ~isValidObjectId(id)
            THEN Respond(r, InvalidId, <<>>)
            ELSE [r EXCEPT !.pc = "updateLoad"]]
  /\ UNCHANGED <<store, nextId, now, deleted, ui>>

UpdateValidate(s) == UpdateValidateFrom(s, UpdateBodies)

\* line 208: delete updateData.vendorId
StripVendorId(b) == [b EXCEPT !.top.vendorId = Absent]

\* updateService without the ownership comparison
UpdateAllowedAny(service, user) == TRUE

\* line 200: the ownership comparison of updateService
UpdateAllowed(service, user) == service.vendorId = user

\* updateService comparing the owner before testing that the service exists
UpdateLoadOwnershipFirst(s) ==
  /\ req[s].pc = "updateLoad"
  /\ Quiet(s)
  /\ LET r == [req[s] EXCEPT !.calls = @ \cup {"findById"}]
         service == findById(r.id)
     IN req' = [req EXCEPT ![s] =
          IF service = <<>> \/ ~UpdateAllowed(service[1], r.user)
          THEN Respond(r, Res(403, "You are not authorized to update this service"), <<>>)
          ELSE [r EXCEPT !.owner = service[1].vendorId, !.body = StripVendorId(@), !.pc = "updateStore"]]
  /\ UNCHANGED <<store, nextId, now, deleted, ui>>

\* lines 190-213
UpdateLoad(s) ==
  /\ req[s].pc = "updateLoad"
  /\ Quiet(s)
  /\ LET r == [req[s] EXCEPT !.calls = @ \cup {"findById"}]
         service == findById(r.id)
     IN req' = [req EXCEPT ![s] =
          IF service = <<>>
          THEN Respond(r, NotFound, <<>>)
          ELSE IF ~UpdateAllowed(service[1], r.user)
          THEN Respond([r EXCEPT !.owner = service[1].vendorId],
                       Res(403, "You are not authorized to update this service"), <<>>)
          ELSE [r EXCEPT !.owner = service[1].vendorId, !.body = StripVendorId(@), !.pc = "updateStore"]]
  /\ UNCHANGED <<store, nextId, now, deleted, ui>>

\* lines 215-248: Service.findByIdAndUpdate(id, updateData, {new, runValidators})
UpdateStore(s) ==
  /\ req[s].pc = "updateStore"
  /\ Quiet(s)
  /\ LET r == [req[s] EXCEPT !.calls = @ \cup {"findByIdAndUpdate"}]
         e == Effective(r.body)
         n == r.id.n
     IN IF PatchCastErrors(e) # {}
        THEN /\ req' = [req EXCEPT ![s] =
                  Respond(r, [Res(500, "Failed to update service")
                                EXCEPT !.error = "CastError"], <<>>)]
             /\ UNCHANGED store
        ELSE IF PatchErrors(e) # {}
        THEN /\ req' = [req EXCEPT ![s] =
                  Respond(r, [Res(400, "Validation failed")
                                EXCEPT !.errors = PatchErrors(e)], <<>>)]
             /\ UNCHANGED store
        ELSE IF findById(r.id) = <<>>
        THEN /\ req' = [req EXCEPT ![s] =
                  Respond(r, Res(200, "Service updated successfully"), <<>>)]
             /\ UNCHANGED store
        ELSE /\ store' = [store EXCEPT ![n] = ApplyPatch(@, e)]
             /\ req' = [req EXCEPT ![s] =
                  Respond(r, Res(200, "Service updated successfully"),
                          <<ApplyPatch(store[n], e)>>)]
  /\ UNCHANGED <<nextId, now, deleted, ui>>

----------------------------------------------------------------------------
(* deleteService *)

\* deleteService without the id-format test of lines 257-263
DeleteValidateNoFormatCheck(s) ==
  /\ req[s].pc = "controller"
  /\ Quiet(s)
  /\ req[s].op = "delete"
  /\ \E id \in PathIds :
       req' = [req EXCEPT ![s] =
         [req[s] EXCEPT !.id = id, !.stages = @ \cup {"controller"},
                        !.repeat = (id.n \in deleted), !.pc = "deleteLoad"]]
  /\ UNCHANGED <<store, nextId, now, deleted, ui>>

\* lines 253-263
DeleteValidate(s) ==
  /\ req[s].pc = "controller"
  /\ Quiet(s)
  /\ req[s].op = "delete"
  /\ \E id \in PathIds :
       LET r == [req[s] EXCEPT !.id = id, !.stages = @ \cup {"controller"},
                               !.repeat = (id.n \in deleted)]
       IN req' = [req EXCEPT ![s] =
            IF ~isValidObjectId(id)
            THEN Respond(r, InvalidId, <<>>)
            ELSE [r EXCEPT !.pc = "deleteLoad"]]
  /\ UNCHANGED <<store, nextId, now, deleted, ui>>

\* deleteService without the ownership comparison
DeleteAllowedAny(service, user) == TRUE

\* deleteService without the admin override
DeleteAllowedOwnerOnly(service, user) == service.vendorId = user

\* lines 275-278: isOwner || isAdmin
DeleteAllowed(service, user) ==
  service.vendorId = user \/ users[user] = "admin"

\* lines 265-284
DeleteLoad(s) ==
  /\ req[s].pc = "deleteLoad"
  /\ Quiet(s)
  /\ LET r == [req[s] EXCEPT !.calls = @ \cup {"findById"}]
         service == findById(r.id)
     IN req' = [req EXCEPT ![s] =
          IF service = <<>>
          THEN Respond(r, NotFound, <<>>)
          ELSE IF ~DeleteAllowed(service[1], r.user)
          THEN Respond([r EXCEPT !.owner = service[1].vendorId],
                       Res(403, "You are not authorized to delete this service"), <<>>)
          ELSE [r EXCEPT !.owner = service[1].vendorId, !.pc = "deleteStore"]]
  /\ UNCHANGED <<store, nextId, now, deleted, ui>>

\* a delete that answers 200 and leaves the document in the collection
DeleteStoreKeeps(s) ==
  /\ req[s].pc = "deleteStore"
  /\ Quiet(s)
  /\ LET r == [req[s] EXCEPT !.calls = @ \cup {"findByIdAndDelete"}]
     IN /\ deleted' = deleted \cup {r.id.n}
        /\ req' = [req EXCEPT ![s] =
             Respond(r, Res(200, "Service deleted successfully"), <<>>)]
  /\ UNCHANGED <<store, nextId, now, ui>>

\* lines 286-291: Service.findByIdAndDelete(id)
DeleteStore(s) ==
  /\ req[s].pc = "deleteStore"
  /\ Quiet(s)
  /\ LET r == [req[s] EXCEPT !.calls = @ \cup {"findByIdAndDelete"}]
     IN /\ store' = [i \in DOMAIN store \ {r.id.n} |-> store[i]]
        /\ deleted' = deleted \cup {r.id.n}
        /\ req' = [req EXCEPT ![s] =
             Respond(r, Res(200, "Service deleted successfully"), <<>>)]
  /\ UNCHANGED <<nextId, now, ui>>

----------------------------------------------------------------------------
(* Environment *)

\* the response has been sent; the slot takes the next request
Retire(s) ==
  /\ req[s].pc = "done"
  /\ Quiet(s)
  /\ req' = [req EXCEPT ![s] = Idle]
  /\ UNCHANGED <<store, nextId, now, deleted, ui>>

Next ==
  \/ \E s \in Slots, op \in Ops : Arrive(s, op)
  \/ \E s \in Slots : ProtectVerify(s)
  \/ \E s \in Slots : ProtectLookup(s)
  \/ \E s \in Slots : Authorize(s)
  \/ \E s \in Slots : CreateCheck(s)
  \/ \E s \in Slots : CreateStore(s)
  \/ \E s \in Slots : getMyServices(s)
  \/ \E s \in Slots : getAllServices(s)
  \/ \E s \in Slots : GetByIdValidate(s)
  \/ \E s \in Slots : GetByIdLoad(s)
  \/ \E s \in Slots : UpdateValidate(s)
  \/ \E s \in Slots : UpdateLoad(s)
  \/ \E s \in Slots : UpdateStore(s)
  \/ \E s \in Slots : DeleteValidate(s)
  \/ \E s \in Slots : DeleteLoad(s)
  \/ \E s \in Slots : DeleteStore(s)
  \/ \E s \in Slots : Retire(s)

Spec == Init /\ [][Next]_vars

----------------------------------------------------------------------------
(* The catalogue: creates and listings only, with services that differ in   *)
(* category, price and status, with creates that fall in one millisecond,   *)
(* and with the filters of the general listing.                             *)

\* bodies sent to POST /api/services
CatalogueBodies ==
  {Body(ValidFields, NoFields),
   Body([ValidFields EXCEPT !.category = "Spa", !.price = Num(40000)], NoFields),
   Body([ValidFields EXCEPT !.price = Num(40000), !.status = "inactive"], NoFields),
   Body([ValidFields EXCEPT !.category = "Spa", !.status = "inactive"], NoFields)}

\* query strings sent to GET /api/services and GET /api/services/my-services
CatalogueQueries ==
  {Query(Absent, st, NoParam, NoParam) : st \in {Absent, "", "active", "inactive"}}
  \cup {Query("Spa", Absent, NoParam, NoParam),
        Query("Hair", "inactive", NoParam, NoParam),
        Query(Absent, Absent, Param("40", Num(40000)), NoParam),
        Query(Absent, Absent, NoParam, Param("25", Num(25000))),
        Query(Absent, Absent, Param("0", Num(0)), Param("40", Num(40000))),
        Query(Absent, Absent, Param("30", Num(30000)), Param("50", Num(50000))),
        Query(Absent, Absent, NoParam, Param("0", Num(0))),
        Query(Absent, "active", Param("40", Num(40000)), NoParam),
        Query(Absent, Absent, Param("abc", NaN), NoParam),
        Query(Absent, Absent, Param("25", Num(25000)), Param("1e", NaN))}

CatalogueOps == {"create", "mine", "list"}

CatalogueArrive == \E op \in CatalogueOps : Arrive("A", op)

CatalogueCreateCheck == CreateCheckFrom("A", CatalogueBodies)

\* Date.now() at Service.create: the millisecond of the latest create, or a
\* later one
CatalogueCreateStore == CreateStoreAt("A", {now, now + 1})

CatalogueMine == MyServicesWith("A", CatalogueQueries)

CatalogueAll == AllServicesWith("A", CatalogueQueries)

NextCatalogue ==
  \/ CatalogueArrive
  \/ ProtectVerify("A")
  \/ ProtectLookup("A")
  \/ Authorize("A")
  \/ CatalogueCreateCheck
  \/ CatalogueCreateStore
  \/ CatalogueMine
  \/ CatalogueAll
  \/ Retire("A")

SpecCatalogue == Init /\ [][NextCatalogue]_vars

----------------------------------------------------------------------------
(* Races: creates, updates and deletes only, with patches that assign       *)
(* different values to the same field.                                      *)

\* bodies sent to PUT /api/services/:id
RaceBodies ==
  {Body([NoFields EXCEPT !.price = Num(30000)], NoFields),
   Body([NoFields EXCEPT !.price = Num(40000), !.status = "inactive"], NoFields),
   Body([NoFields EXCEPT !.price = Num(-5000), !.status = "inactive"], NoFields)}

RaceOps == {"create", "update", "delete"}

RaceArrive(s) == \E op \in RaceOps : Arrive(s, op)

RaceCreateCheck(s) == CreateCheckFrom(s, {Body(ValidFields, NoFields)})

RaceUpdateValidate(s) == UpdateValidateFrom(s, RaceBodies)

NextRace ==
  \/ \E s \in Slots : RaceArrive(s)
  \/ \E s \in Slots : ProtectVerify(s)
  \/ \E s \in Slots : ProtectLookup(s)
  \/ \E s \in Slots : Authorize(s)
  \/ \E s \in Slots : RaceCreateCheck(s)
  \/ \E s \in Slots : CreateStore(s)
  \/ \E s \in Slots : RaceUpdateValidate(s)
  \/ \E s \in Slots : UpdateLoad(s)
  \/ \E s \in Slots : UpdateStore(s)
  \/ \E s \in Slots : DeleteValidate(s)
  \/ \E s \in Slots : DeleteLoad(s)
  \/ \E s \in Slots : DeleteStore(s)
  \/ \E s \in Slots : Retire(s)

SpecRace == Init /\ [][NextRace]_vars

----------------------------------------------------------------------------
(* The vendor dashboard: the list of the vendor's services and the modal    *)
(* that confirms a delete.  A handler runs to its first await in one step;  *)
(* its continuation runs when the call settles, with the values its closure *)
(* captured when the handler was created.  The API answers as it chooses.   *)

ShownIds == 1..MaxShown

\* lines 32-45: fetchMyServices settles, with the services the API returned
\* or with an error
fetchMyServices ==
  /\ ui.loading
  /\ \/ \E S \in SUBSET ShownIds :
          ui' = [ui EXCEPT !.services = S, !.loading = FALSE]
     \/ ui' = [ui EXCEPT !.toast = "error", !.loading = FALSE]
  /\ UNCHANGED <<store, nextId, now, deleted, req>>

\* lines 47-60, from the Delete button of a listed service; the list is
\* rendered when the page is not loading, and the open modal covers it
openDeleteModal(id) ==
  /\ ~ui.loading
  /\ ~ui.deleteModal.isOpen
  /\ id \in ui.services
  /\ ui' = [ui EXCEPT !.deleteModal =
              [isOpen |-> TRUE, serviceId |-> id, loading |-> FALSE]]
  /\ UNCHANGED <<store, nextId, now, deleted, req>>

\* ConfirmModal.tsx lines 43-47 and 86-88: the backdrop and the Cancel
\* button call onClose unless loading
closeDeleteModal ==
  /\ ui.deleteModal.isOpen
  /\ ~ui.deleteModal.loading
  /\ ui' = [ui EXCEPT !.deleteModal = ClosedModal]
  /\ UNCHANGED <<store, nextId, now, deleted, req>>

\* a confirm button that stays enabled while loading
handleDeleteConfirmAlwaysEnabled ==
  /\ ui.deleteModal.isOpen
  /\ ui' = [ui EXCEPT
       !.deleteModal.loading = TRUE,
       !.pending = Append(@, [serviceId |-> ui.deleteModal.serviceId,
                              services |-> ui.services])]
  /\ UNCHANGED <<store, nextId, now, deleted, req>>

\* ConfirmModal.tsx lines 102-104 and VendorDashboard.tsx lines 72-80: the
\* confirm button, disabled while loading, starts the API call
handleDeleteConfirm ==
  /\ ui.deleteModal.isOpen
  /\ ~ui.deleteModal.loading
  /\ ui' = [ui EXCEPT
       !.deleteModal.loading = TRUE,
       !.pending = Append(@, [serviceId |-> ui.deleteModal.serviceId,
                              services |-> ui.services])]
  /\ UNCHANGED <<store, nextId, now, deleted, req>>

\* lines 82-88: the API call resolved
DeleteResolved ==
  /\ ui.pending # <<>>
  /\ LET call == Head(ui.pending)
     IN ui' = [ui EXCEPT !.pending = Tail(@),
                         !.services = call.services \ {call.serviceId},
                         !.toast = "success",
                         !.deleteModal = ClosedModal]
  /\ UNCHANGED <<store, nextId, now, deleted, req>>

\* lines 89-93: the API call threw
DeleteRejected ==
  /\ ui.pending # <<>>
  /\ ui' = [ui EXCEPT !.pending = Tail(@),
                      !.toast = "error",
                      !.deleteModal.loading = FALSE]
  /\ UNCHANGED <<store, nextId, now, deleted, req>>

NextDashboard ==
  \/ fetchMyServices
  \/ \E id \in ShownIds : openDeleteModal(id)
  \/ closeDeleteModal
  \/ handleDeleteConfirm
  \/ DeleteResolved
  \/ DeleteRejected

SpecDashboard == Init /\ [][NextDashboard]_vars

----------------------------------------------------------------------------
(* Properties *)

\* the requests that have been answered
Done == {s \in Slots : req[s].pc = "done"}

\* the calls that change the collection
Writes == {"create", "findByIdAndUpdate", "findByIdAndDelete"}

\* the identifier format of the store: 12 bytes or 24 hex characters
WellFormedIds == {i \in PathIds : i.len = 12 \/ i = Oid(i.n)}

\* the controller of the request read the :id path segment
ReadId(r) == r.op \in {"get", "update", "delete"} /\ "controller" \in r.stages

\* C1: an update or delete is answered with success only if the requester
\* is an admin or is the owner the ownership check read from the service
C1_MutationOnlyByOwnerOrAdmin ==
  \A s \in Done :
    LET r == req[s]
    IN (r.op \in {"update", "delete"} /\ r.res.status = 200)
         => (users[r.user] = "admin" \/ r.user = r.owner)

C1_Witness ==
  \E s \in Done :
    /\ req[s].op = "update"
    /\ req[s].res.status = 200
    /\ req[s].data # <<>>
    /\ req[s].user = req[s].owner

\* C2: whatever the status parameter, every service the general listing
\* returns to a client is active
C2_ClientSeesOnlyActive ==
  \A s \in Done :
    LET r == req[s]
    IN (r.op = "list" /\ r.user # Absent /\ users[r.user] = "client")
         => \A i \in DOMAIN r.data : r.data[i].status = "active"

C2_Witness ==
  \E s \in Done :
    /\ req[s].op = "list"
    /\ req[s].user = "c1"
    /\ req[s].query.status = "inactive"
    /\ req[s].data # <<>>
    /\ \E d \in Docs : d.status = "inactive"

\* C3: the delete of an admin who is not the owner succeeds and removes the
\* service; the update of an admin is answered Forbidden without any call
\* on the collection
C3_AdminDeletesButCannotUpdate ==
  \A s \in Done :
    LET r == req[s]
    IN (r.user # Absent /\ users[r.user] = "admin")
         => /\ (r.op = "delete" /\ r.owner # Absent /\ r.owner # r.user)
                 => (r.res.status = 200 /\ r.id.n \notin DOMAIN store)
            /\ r.op = "update" => (r.res.status = 403 /\ r.calls = {})

C3_Witness ==
  \E s \in Done :
    /\ req[s].op = "delete"
    /\ req[s].user = "a1"
    /\ req[s].owner = "v1"
    /\ req[s].res.status = 200
    /\ store # <<>>

\* C4: an update by an authenticated identity that is not the owner of the
\* service is answered Forbidden whatever the body, and makes no update
\* call on the collection
C4_NonOwnerUpdateForbidden ==
  \A s \in Done :
    LET r == req[s]
    IN (/\ r.op = "update"
        /\ r.user # Absent
        /\ \/ users[r.user] # "vendor"
           \/ (r.owner # Absent /\ r.owner # r.user))
         => (r.res.status = 403 /\ r.calls \cap Writes = {})

C4_Witness ==
  \E s \in Done :
    /\ req[s].op = "update"
    /\ req[s].user = "v2"
    /\ req[s].owner = "v1"
    /\ req[s].body.top.price = Num(-5000)
    /\ req[s].res.status = 403

\* C5: no step changes the vendorId of a service that stays in the
\* collection
C5_OwnerNeverChanges ==
  [][\A n \in DOMAIN store \cap DOMAIN store' :
       store'[n].vendorId = store[n].vendorId]_vars

\* C6: the update document handed to findByIdAndUpdate assigns no vendorId
C6_PatchHasNoVendorId ==
  \A s \in Slots :
    (req[s].op = "update" /\ (req[s].pc = "updateStore"
                              \/ "findByIdAndUpdate" \in req[s].calls))
      => Effective(req[s].body).vendorId = Absent

\* C7: a get, update or delete whose id is malformed is answered
\* InvalidIdentifier (400, not 404) without any call on the collection
C7_MalformedIdFailsFast ==
  \A s \in Done :
    LET r == req[s]
    IN (ReadId(r) /\ r.id \notin WellFormedIds)
         => (r.res.status = 400 /\ r.res.message = "Invalid service ID format"
             /\ r.calls = {})

C7_Witness ==
  \E s \in Done :
    /\ req[s].op = "delete"
    /\ "controller" \in req[s].stages
    /\ req[s].id.len = 24
    /\ ~req[s].id.hex
    /\ req[s].res.status = 400
    /\ store # <<>>

\* C8: a get, update or delete with a well-formed id for which the
\* collection holds no service is answered NotFound and writes nothing
C8_MissingServiceNotFound ==
  \A s \in Done :
    LET r == req[s]
    IN (/\ ReadId(r)
        /\ r.id \in WellFormedIds
        /\ r.calls \cap Writes = {}
        /\ (r.id.len = 12 \/ r.id.n \notin DOMAIN store))
         => (r.res.status = 404 /\ r.calls = {"findById"})

C8_Witness ==
  \E s \in Done :
    /\ req[s].op = "update"
    /\ req[s].user = "v2"
    /\ req[s].id.len = 24
    /\ req[s].id.n \in deleted
    /\ req[s].res.status = 404

\* C9: a delete issued after a delete of the same id was answered with
\* success is answered NotFound
C9_SecondDeleteNotFound ==
  \A s \in Done :
    (req[s].op = "delete" /\ req[s].repeat) => req[s].res.status = 404

C9_Witness ==
  \E s \in Done :
    /\ req[s].op = "delete"
    /\ req[s].repeat
    /\ req[s].user = "a1"
    /\ req[s].res.status = 404

\* a credential that is absent, not a valid token, or of no account
BadCredential(h) ==
  \/ h.scheme # "Bearer"
  \/ h.token.form # "signed"
  \/ h.token.sub \notin UserIds

\* C10: a request with a bad credential is answered 401; neither the role
\* gate nor the controller runs and no call on the collection is made
C10_BadCredentialUnauthenticated ==
  \A s \in Done :
    BadCredential(req[s].header)
      => /\ req[s].res.status = 401
         /\ req[s].stages = {"protect"}
         /\ req[s].calls = {}

C10_Witness ==
  \E s \in Done :
    /\ req[s].header.token.form = "signed"
    /\ req[s].header.token.sub = "gone"
    /\ req[s].res.status = 401
    /\ store # <<>>

\* C11: every 401 response is the one generic response, the same as for a
\* missing token
C11_Uniform401 ==
  \A s \in Done :
    req[s].res.status = 401 => req[s].res = Res(401, "Not authorized, no token")

\* the roles the documentation gives for each route
DocumentedRoles ==
  [list |-> Roles, get |-> Roles, mine |-> {"vendor"}, create |-> {"vendor"},
   update |-> {"vendor"}, delete |-> {"vendor", "admin"}]

\* C12: an authenticated request reaches its controller if and only if the
\* role of the identity is among the roles of the route; otherwise it is
\* answered Forbidden and the controller does not run
C12_RoleGateFailsClosed ==
  \A s \in Done :
    LET r == req[s]
    IN r.user # Absent =>
         IF users[r.user] \in DocumentedRoles[r.op]
         THEN "controller" \in r.stages
         ELSE /\ r.res.status = 403
              /\ "controller" \notin r.stages
              /\ r.calls = {}

C12_Witness ==
  \E s \in Done :
    /\ req[s].op = "delete"
    /\ req[s].user = "c1"
    /\ req[s].res.status = 403
    /\ "controller" \notin req[s].stages
    /\ store # <<>>

\* the services a response carries
Listed(r) == {r.data[i] : i \in DOMAIN r.data}

\* the general listings answered to a vendor or an admin
StaffListings ==
  {s \in Done : /\ req[s].op = "list"
                /\ req[s].res.status = 200
                /\ users[req[s].user] \in {"vendor", "admin"}}

\* the services that pass the category and price filters of query q
PassOtherFilters(role, q) ==
  {d \in Docs : Matches(d, [BuildQuery(role, q) EXCEPT !.status = Absent])}

\* C13 as stated: for a vendor or admin, a status parameter that is present
\* selects exactly the services with that status (among those matching the
\* other filters), and an absent one does not restrict the result
C13_StatusParamHonoured ==
  \A s \in StaffListings :
    LET r == req[s]
    IN Listed(r) =
         {d \in PassOtherFilters(users[r.user], r.query) :
            r.query.status # Absent => d.status = r.query.status}

\* C13 amended: a status parameter that is present and not empty selects
\* exactly the services with that status; an absent or empty one does not
\* restrict the result
C13_NonEmptyStatusParamHonoured ==
  \A s \in StaffListings :
    LET r == req[s]
    IN Listed(r) =
         {d \in PassOtherFilters(users[r.user], r.query) :
            r.query.status \notin {Absent, ""} => d.status = r.query.status}

C13_Witness ==
  \E s \in StaffListings :
    /\ req[s].query.status = "inactive"
    /\ Listed(req[s]) # {}
    /\ Listed(req[s]) # Docs
    /\ \E d \in Docs : d.status = "active"

\* the services that pass the status and category filters of query q
PassNonPriceFilters(role, q) ==
  {d \in Docs : Matches(d, [BuildQuery(role, q) EXCEPT !.gte = NoNum, !.lte = NoNum])}

\* a price parameter that is missing or numeric
NumericOrMissing(p) == p = NoParam \/ (p.t = "str" /\ p.num.t = "num")

\* C14: numeric minPrice = a and maxPrice = b select exactly the services with
\* a <= price and price <= b, bounds included, each bound alone or both, a
\* bound of 0 included
C14_PriceRangeInclusive ==
  \A s \in Done :
    LET r == req[s]
        q == r.query
    IN (/\ r.op = "list"
        /\ r.res.status = 200
        /\ NumericOrMissing(q.minPrice)
        /\ NumericOrMissing(q.maxPrice))
       => Listed(r) =
            {d \in PassNonPriceFilters(users[r.user], q) :
               /\ q.minPrice # NoParam => d.price.v >= q.minPrice.num.v
               /\ q.maxPrice # NoParam => d.price.v <= q.maxPrice.num.v}

C14_Witness ==
  \E s \in Done :
    /\ req[s].op = "list"
    /\ req[s].res.status = 200
    /\ req[s].query.maxPrice = Param("0", Num(0))
    /\ Listed(req[s]) = {}
    /\ Docs # {}

\* query q without the price parameters that do not parse
WithoutUnparsable(q) ==
  [q EXCEPT !.minPrice = IF NumericOrMissing(@) THEN @ ELSE NoParam,
            !.maxPrice = IF NumericOrMissing(@) THEN @ ELSE NoParam]

\* C15: a minPrice or maxPrice that does not parse as a number is ignored: the
\* request succeeds with the result it has when the parameter is left out
C15_UnparsablePriceIgnored ==
  \A s \in Done :
    LET r == req[s]
    IN (/\ r.op = "list"
        /\ "controller" \in r.stages
        /\ WithoutUnparsable(r.query) # r.query)
       => /\ r.res.status = 200
          /\ Listed(r) =
               {d \in Docs :
                  Matches(d, BuildQuery(users[r.user], WithoutUnparsable(r.query)))}

\* C16: the listing of a vendor's own services returns exactly the services
\* whose vendorId is the requesting vendor, of any status, whatever the query
\* string
C16_MyServicesExactlyOwn ==
  \A s \in Done :
    LET r == req[s]
    IN (r.op = "mine" /\ "controller" \in r.stages)
       => /\ r.res.status = 200
          /\ Listed(r) = {d \in Docs : d.vendorId = r.user}
          /\ Len(r.data) = Cardinality(Listed(r))

C16_Witness ==
  \E s \in Done :
    /\ req[s].op = "mine"
    /\ req[s].res.status = 200
    /\ req[s].query.status = "active"
    /\ \E d \in Listed(req[s]) : d.status = "inactive"
    /\ \E d \in Docs : d.vendorId # req[s].user

\* C17: a listing is in the order newest-created first, and that order is
\* determined by the services it contains, equal creation times included:
\* the store has no other order in which to return them
C17_ListingOrderDetermined ==
  \A s \in Done :
    LET r == req[s]
    IN (r.op \in {"list", "mine"} /\ r.res.status = 200)
       => /\ \A i, j \in DOMAIN r.data :
               i < j => r.data[i].createdAt >= r.data[j].createdAt
          /\ \A l \in SortedDesc(Listed(r)) : l = r.data

\* the outcome a response surfaces to the caller
Outcome(res) ==
  CASE res.status \in {200, 201} -> "Allow"
    [] res.status = 401 -> "Unauthenticated"
    [] res.status = 403 -> "Forbidden"
    [] res.status = 404 -> "NotFound"
    [] res.status = 400 /\ res.message = "Invalid service ID format" -> "InvalidIdentifier"
    [] res.status = 400 /\ res.message = "Validation failed" -> "ValidationFailed"
    [] res.status = 400 /\ res.message = "Please provide all required fields" -> "MissingFields"
    [] res.status = 500 -> "InternalError"
    [] OTHER -> "Other"

\* C18 as stated: every request ends in one of Unauthenticated, Forbidden,
\* InvalidIdentifier, NotFound or Allow, and in nothing else
C18_FiveOutcomesOnly ==
  \A s \in Done :
    Outcome(req[s].res) \in
      {"Unauthenticated", "Forbidden", "InvalidIdentifier", "NotFound", "Allow"}

\* C18 amended: every request ends in one of Unauthenticated, Forbidden,
\* InvalidIdentifier, NotFound, Allow, or one of the controllers' own failures:
\* missing required fields, ValidationFailed, or an internal error
C18_OutcomesOfThePipeline ==
  \A s \in Done :
    Outcome(req[s].res) \in
      {"Unauthenticated", "Forbidden", "InvalidIdentifier", "NotFound", "Allow",
       "MissingFields", "ValidationFailed", "InternalError"}

C18_Witness ==
  \E s \in Done :
    /\ req[s].op = "update"
    /\ Outcome(req[s].res) = "ValidationFailed"
    /\ req[s].res.errors # {}

\* C19: a create request succeeds only for an authenticated vendor, and the
\* service it creates is owned by that vendor whatever vendorId the body carries
C19_CreatedServiceOwnedByCaller ==
  \A s \in Done :
    LET r == req[s]
    IN (r.op = "create" /\ r.res.status = 201) =>
         /\ r.user \in UserIds
         /\ users[r.user] = "vendor"
         /\ Len(r.data) = 1
         /\ r.data[1].vendorId = r.user
         /\ \E i \in DOMAIN store : store[i] = r.data[1]

C19_Witness ==
  \E s \in Done :
    /\ req[s].op = "create"
    /\ req[s].res.status = 201
    /\ req[s].user = "v1"
    /\ req[s].body.top.vendorId = "v2"
    /\ req[s].data[1].vendorId = "v1"

\* C20: the role gate is evaluated only after the credential verifier has
\* succeeded and attached an identity, so it never reads the role of an absent
\* identity
C20_RoleGateAfterIdentity ==
  \A s \in Slots :
    (req[s].pc = "authorize" \/ "authorize" \in req[s].stages) =>
      /\ "protect" \in req[s].stages
      /\ req[s].user \in UserIds
      /\ JwtVerifies(ExtractToken(req[s].header))

C20_Witness ==
  \E s \in Slots :
    /\ "authorize" \in req[s].stages
    /\ req[s].user = "a1"
    /\ req[s].res.status = 403

\* C21: in update and delete the owner is compared only after the load
\* returned a service: a request for a missing service ends NotFound with no
\* owner read, and a Forbidden of the controller has read the owner of an
\* existing service
C21_OwnershipAfterLoad ==
  \A s \in Slots :
    LET r == req[s]
    IN /\ r.owner # Absent =>
            ("findById" \in r.calls /\ r.op \in {"update", "delete"})
       /\ (r.pc = "done" /\ r.op \in {"update", "delete"} /\ r.calls = {"findById"})
            => IF findById(r.id) = <<>>
               THEN r.res.status = 404 /\ r.owner = Absent
               ELSE /\ r.res.status = 403
                    /\ r.owner = store[r.id.n].vendorId
                    /\ r.owner # r.user

C21_Witness ==
  \E s \in Done :
    /\ req[s].op = "delete"
    /\ req[s].user = "v2"
    /\ req[s].id.len = 24
    /\ req[s].id.hex
    /\ req[s].id.n \notin DOMAIN store
    /\ req[s].res.status = 404
    /\ req[s].owner = Absent
    /\ \E i \in DOMAIN store : store[i].vendorId = "v1"

\* the request has issued, or is about to issue, its store mutation
Mutating(r) == r.pc \in Waiting \/ r.calls \cap Writes # {}

\* C22: no call on the collection is made unless protect and then the role
\* gate have passed, and an update or delete issues its store mutation only
\* after id-format validation, then the load, then the ownership check passed
C22_PipelineOrder ==
  \A s \in Slots :
    LET r == req[s]
    IN /\ "authorize" \in r.stages => "protect" \in r.stages
       /\ "controller" \in r.stages =>
            /\ "authorize" \in r.stages
            /\ r.user \in UserIds
            /\ users[r.user] \in DocumentedRoles[r.op]
       /\ r.calls # {} => "controller" \in r.stages
       /\ "findById" \in r.calls => r.id \in WellFormedIds
       /\ (Mutating(r) /\ r.op \in {"update", "delete"}) =>
            /\ "findById" \in r.calls
            /\ r.owner \in UserIds
            /\ r.owner = r.user \/ (r.op = "delete" /\ users[r.user] = "admin")

C22_Witness ==
  \E s \in Done :
    /\ req[s].op = "delete"
    /\ req[s].user = "a1"
    /\ req[s].owner = "v1"
    /\ req[s].stages = {"protect", "authorize", "controller"}
    /\ req[s].calls = {"findById", "findByIdAndDelete"}
    /\ req[s].res.status = 200

\* C23: a response ends its request: once a request has an outcome it takes
\* no further step and makes no further call, and a request leaves only with
\* the one response it was given
C23_FailureIsTerminal ==
  [][\A s \in Slots :
       /\ req[s].res # NoRes =>
            /\ req[s].pc = "done"
            /\ req'[s] = req[s] \/ req'[s] = Idle
       /\ (req[s].pc # "idle" /\ req'[s].pc = "idle") =>
            (req[s].pc = "done" /\ req[s].res # NoRes)]_vars

C23_Witness ==
  \E s \in Done :
    /\ req[s].op = "update"
    /\ req[s].res.status = 403
    /\ req[s].owner # Absent
    /\ req[s].calls = {"findById"}
    /\ \E t \in Slots \ {s} : req[t].pc \in Waiting

\* the update of the request has a patch the schema accepts
PatchAccepted(r) ==
  PatchErrors(Effective(r.body)) = {} /\ PatchCastErrors(Effective(r.body)) = {}

\* C24: each of two concurrent updates by the owner, with patches the schema
\* accepts, succeeds, and right after its store update the service holds the
\* value of every field its patch set and is the service the response carries
\* (the last store update wins); the ownership check of a request depends on
\* its own identity and the stored owner only
C24_LastWriteWins ==
  \A s \in Done :
    LET r == req[s]
        n == r.id.n
        e == Effective(r.body)
    IN (r.op = "update" /\ r.owner # Absent) =>
         /\ r.res.status = 403 <=> r.owner # r.user
         /\ (r.owner = r.user /\ PatchAccepted(r) /\ n \notin deleted) =>
              /\ r.res.status = 200
              /\ r.data = <<store[n]>>
              /\ \A f \in FieldNames : Present(f, e[f]) => store[n][f] = e[f]

C24_Witness ==
  \E s \in Done, t \in Slots :
    /\ req[s].op = "update" /\ req[t].op = "update"
    /\ req[t].pc = "updateStore"
    /\ req[s].id = req[t].id
    /\ req[s].user = req[t].user
    /\ req[s].res.status = 200
    /\ PatchAccepted(req[t])
    /\ Effective(req[s].body).price # Effective(req[t].body).price
    /\ store[req[s].id.n].price = Effective(req[s].body).price

\* C25: an update by the owner whose patch holds a value the schema rejects
\* ends in ValidationFailed with the list of the rejected fields and stores
\* none of the rejected values; a create whose fields the schema rejects ends
\* in a validation failure and returns no service
C25_InvalidPayloadValidationFailed ==
  \A s \in Done :
    LET r == req[s]
        e == Effective(r.body)
    IN /\ (r.op = "update" /\ r.owner = r.user /\ PatchErrors(e) # {}) =>
            /\ Outcome(r.res) = "ValidationFailed"
            /\ r.res.errors = PatchErrors(e)
            /\ \A f \in PatchErrors(e) :
                 r.id.n \in DOMAIN store => store[r.id.n][f] # e[f]
       /\ (r.op = "create" /\ "controller" \in r.stages
           /\ ValidationErrors(NewService(r, now)) # {}) =>
            /\ Outcome(r.res) \in {"ValidationFailed", "MissingFields"}
            /\ r.data = <<>>

\* C26: of two concurrent deletes of one service exactly one reports success:
\* a delete whose store call finds the service reports success, and one whose
\* store call finds it already removed reports NotFound
C26_OneDeleteSucceeds ==
  [][\A s \in Slots :
       (req[s].op = "delete" /\ req[s].pc = "deleteStore" /\ req'[s].pc = "done") =>
         IF req[s].id.n \in DOMAIN store
         THEN req'[s].res.status = 200
         ELSE req'[s].res.status = 404]_vars

\* C27: an update that reports success carries the updated service, which is
\* in the store, never an empty result; and a service whose delete reported
\* success is not in the store afterwards
C27_UpdateSuccessCarriesService ==
  /\ \A s \in Done :
       (req[s].op = "update" /\ req[s].res.status = 200) =>
         /\ req[s].data # <<>>
         /\ req[s].id.n \in DOMAIN store
         /\ req[s].data = <<store[req[s].id.n]>>
  /\ \A n \in deleted : n \notin DOMAIN store

\* C28: no read open to a client, the general listing or the read by id,
\* returns a service that is inactive
C28_ClientNeverReadsInactive ==
  \A s \in Done :
    LET r == req[s]
    IN (/\ r.op \in {"list", "get"}
        /\ r.user # Absent
        /\ users[r.user] = "client"
        /\ r.res.status = 200)
       => \A i \in DOMAIN r.data : r.data[i].status # "inactive"

\* C29: a create by a vendor whose fields all satisfy the schema, a price of
\* 0 included, succeeds and stores the service, with status active when the
\* body gives none
C29_ValidCreateSucceeds ==
  \A s \in Done :
    LET r == req[s]
    IN (/\ r.op = "create"
        /\ "controller" \in r.stages
        /\ ValidationErrors(NewService(r, now)) = {})
       => /\ r.res.status = 201
          /\ Len(r.data) = 1
          /\ \E i \in DOMAIN store : store[i] = r.data[1]
          /\ r.body.top.status = Absent => r.data[1].status = "active"

====
